---- MODULE Spec2Model ----
(***************************************************************************)
(* Model of ecologits' LLM impact computation (impacts/llm.py) and of the  *)
(* electricity-mix repository (electricity_mix_repository.py).             *)
(*                                                                         *)
(* Numbers.  The program computes with Python floats.  The model computes  *)
(* with exact rationals [n, d] in lowest terms; +infinity (math.inf) is    *)
(* the pair 1/0, which the cross-multiplying comparisons order above every *)
(* finite value.  Rounding of floats is not modelled.                      *)
(*                                                                         *)
(* Values.  A ValueOrRange is a record [rv, min, max]: rv says whether the *)
(* Python object is a RangeValue; a plain number has rv = FALSE and        *)
(* min = max.                                                              *)
(***************************************************************************)
EXTENDS Integers, Sequences, FiniteSets, TLC

\* ------------------------------------------------------------- rationals

Abs(x) == IF x < 0 THEN -x ELSE x

RECURSIVE GCD(_, _)
GCD(a, b) == IF b = 0 THEN a ELSE GCD(b, a % b)

Norm(n, d) ==
    LET g == GCD(Abs(n), d)
    IN  [n |-> n \div g, d |-> d \div g]

Q(n, d) == Norm(n, d)

Zero == Q(0, 1)

Inf == [n |-> 1, d |-> 0]

RAdd(a, b) ==
    LET l == (a.d \div GCD(a.d, b.d)) * b.d
    IN  Norm(a.n * (l \div a.d) + b.n * (l \div b.d), l)

RNeg(a) == [n |-> -a.n, d |-> a.d]

RSub(a, b) == RAdd(a, RNeg(b))

RMul(a, b) ==
    LET g1 == GCD(Abs(a.n), b.d)
        g2 == GCD(Abs(b.n), a.d)
    IN  Norm((a.n \div g1) * (b.n \div g2), (a.d \div g2) * (b.d \div g1))

\* Division by a positive rational.
RDiv(a, b) == RMul(a, [n |-> b.d, d |-> b.n])

\* Comparison by cross-multiplication, the common factor of the denominators
\* taken out first.
RLt(a, b) ==
    LET g == GCD(a.d, b.d)
    IN  a.n * (b.d \div g) < b.n * (a.d \div g)

RLe(a, b) == ~RLt(b, a)

\* math.ceil of a rational, as an integer-valued rational.
RCeil(a) == Q(-((-a.n) \div a.d), 1)

\* Python's max(0, x): 0 unless x is strictly greater.
Max0(x) == IF RLt(Zero, x) THEN x ELSE Zero

\* ------------------------------------------------- RangeValue / ValueOrRange

Scalar(x) == [rv |-> FALSE, min |-> x, max |-> x]

\* RangeValue(min=lo, max=hi); the constructor rejects lo > hi.
RangeValue(lo, hi) == [rv |-> TRUE, min |-> lo, max |-> hi]

RangeInvalid(lo, hi) == RLt(hi, lo)

\* Arithmetic: a scalar is broadcast over both bounds, two intervals combine
\* bound by bound.
VAdd(a, b) ==
    [rv |-> a.rv \/ b.rv, min |-> RAdd(a.min, b.min), max |-> RAdd(a.max, b.max)]

VMul(a, b) ==
    [rv |-> a.rv \/ b.rv, min |-> RMul(a.min, b.min), max |-> RMul(a.max, b.max)]

VDiv(a, b) ==
    [rv |-> a.rv \/ b.rv, min |-> RDiv(a.min, b.min), max |-> RDiv(a.max, b.max)]

\* boundedValue < threshold is max(boundedValue) < threshold.
VLt(a, threshold) == RLt(a.max, threshold)

\* ----------------------------------------------------------- formula nodes

C196 == Q(49, 25)

\* Mutant: the lower bound is not floored at 0.
gpu_energy_NoFloor(active, tokens, alpha, beta, stdev) ==
    LET gpu_energy_per_token_mean == RAdd(RMul(alpha, active), beta)
        gpu_energy_min == RMul(tokens, RSub(gpu_energy_per_token_mean, RMul(C196, stdev)))
        gpu_energy_max == RMul(tokens, RAdd(gpu_energy_per_token_mean, RMul(C196, stdev)))
    IN  RangeValue(gpu_energy_min, gpu_energy_max)

gpu_energy(active, tokens, alpha, beta, stdev) ==
    LET gpu_energy_per_token_mean == RAdd(RMul(alpha, active), beta)
        gpu_energy_min == RMul(tokens, RSub(gpu_energy_per_token_mean, RMul(C196, stdev)))
        gpu_energy_max == RMul(tokens, RAdd(gpu_energy_per_token_mean, RMul(C196, stdev)))
    IN  RangeValue(Max0(gpu_energy_min), gpu_energy_max)

gpu_latency_interval(active, tokens, alpha, beta, stdev) ==
    LET gpu_latency_per_token_mean == RAdd(RMul(alpha, active), beta)
        gpu_latency_min == RMul(tokens, RSub(gpu_latency_per_token_mean, RMul(C196, stdev)))
        gpu_latency_max == RMul(tokens, RAdd(gpu_latency_per_token_mean, RMul(C196, stdev)))
    IN  RangeValue(Max0(gpu_latency_min), gpu_latency_max)

\* Mutant: the comparison with the ceiling is <= instead of <.
generation_latency_Inclusive(active, tokens, alpha, beta, stdev, request_latency) ==
    LET interval == gpu_latency_interval(active, tokens, alpha, beta, stdev)
    IN  IF RLe(interval.max, request_latency)
        THEN interval
        ELSE Scalar(request_latency)

generation_latency(active, tokens, alpha, beta, stdev, request_latency) ==
    LET interval == gpu_latency_interval(active, tokens, alpha, beta, stdev)
    IN  IF VLt(interval, request_latency)
        THEN interval
        ELSE Scalar(request_latency)

model_required_memory(total, bits) ==
    Scalar(RDiv(RMul(RMul(Q(6, 5), total), bits), Q(8, 1)))

\* Mutant: the quotient is rounded down and one GPU added.
gpu_required_count_FloorPlusOne(memory, gpu_memory) ==
    LET q == RDiv(memory.min, gpu_memory)
    IN  Scalar(Q((q.n \div q.d) + 1, 1))

gpu_required_count(memory, gpu_memory) ==
    Scalar(RCeil(RDiv(memory.min, gpu_memory)))

server_energy(latency, server_power, server_gpu_count, gpu_count) ==
    VMul(VMul(VDiv(latency, Scalar(Q(3600, 1))), Scalar(server_power)),
         VDiv(gpu_count, Scalar(server_gpu_count)))

\* provider_pue[ai_company_to_data_center_provider[provider]] raises KeyError
\* when either subscript is missing.
LookupRaises(table, company_map, provider) ==
    \/ provider \notin DOMAIN company_map
    \/ company_map[provider] \notin DOMAIN table

request_energy(provider, provider_pue, company_map, srv_energy, gpu_count, gpu_en) ==
    VMul(Scalar(provider_pue[company_map[provider]]),
         VAdd(srv_energy, VMul(gpu_count, gpu_en)))

request_usage_gwp(energy, if_electricity_mix_gwp) ==
    VMul(energy, Scalar(if_electricity_mix_gwp))

request_usage_adpe(energy, if_electricity_mix_adpe) ==
    VMul(energy, Scalar(if_electricity_mix_adpe))

request_usage_pe(energy, if_electricity_mix_pe) ==
    VMul(energy, Scalar(if_electricity_mix_pe))

\* Mutant: the on-site term is left out.
request_usage_water_OffsiteOnly(energy, wcf, wue_onsite, provider, pue, company_map) ==
    VMul(energy, Scalar(RMul(pue[company_map[provider]], wcf)))

request_usage_water(energy, wcf, wue_onsite, provider, pue, company_map) ==
    VMul(energy,
         Scalar(RAdd(wue_onsite[company_map[provider]],
                     RMul(pue[company_map[provider]], wcf))))

server_gpu_embodied_gwp(server_embodied_gwp, server_gpu_count, gpu_embodied_gwp, gpu_count) ==
    VAdd(VMul(VDiv(gpu_count, Scalar(server_gpu_count)), Scalar(server_embodied_gwp)),
         VMul(gpu_count, Scalar(gpu_embodied_gwp)))

server_gpu_embodied_adpe(server_embodied_adpe, server_gpu_count, gpu_embodied_adpe, gpu_count) ==
    VAdd(VMul(VDiv(gpu_count, Scalar(server_gpu_count)), Scalar(server_embodied_adpe)),
         VMul(gpu_count, Scalar(gpu_embodied_adpe)))

server_gpu_embodied_pe(server_embodied_pe, server_gpu_count, gpu_embodied_pe, gpu_count) ==
    VAdd(VMul(VDiv(gpu_count, Scalar(server_gpu_count)), Scalar(server_embodied_pe)),
         VMul(gpu_count, Scalar(gpu_embodied_pe)))

request_embodied_gwp(server_gpu_emb_gwp, server_lifetime, latency) ==
    VMul(VDiv(latency, Scalar(server_lifetime)), server_gpu_emb_gwp)

request_embodied_adpe(server_gpu_emb_adpe, server_lifetime, latency) ==
    VMul(VDiv(latency, Scalar(server_lifetime)), server_gpu_emb_adpe)

request_embodied_pe(server_gpu_emb_pe, server_lifetime, latency) ==
    VMul(VDiv(latency, Scalar(server_lifetime)), server_gpu_emb_pe)

request_embodied_water(server_lifetime, batching_size, water_gpu, gpus_in_server, latency) ==
    VDiv(VMul(VMul(latency, Scalar(water_gpu)), Scalar(gpus_in_server)),
         Scalar(RMul(server_lifetime, batching_size)))

\* ------------------------------------------------------- the formula graph

\* The functions registered with @dag.asset, in registration order.
NodeOrder ==
    << "gpu_energy", "generation_latency", "model_required_memory",
       "gpu_required_count", "server_energy", "request_energy",
       "request_usage_gwp", "request_usage_adpe", "request_usage_pe",
       "request_usage_water", "server_gpu_embodied_gwp",
       "server_gpu_embodied_adpe", "server_gpu_embodied_pe",
       "request_embodied_gwp", "request_embodied_adpe", "request_embodied_pe",
       "request_embodied_water" >>

Nodes == {NodeOrder[k] : k \in 1..Len(NodeOrder)}

\* The parameter names of node n's function.
SignatureOf(n) ==
        CASE n = "gpu_energy" ->
               << "model_active_parameter_count", "output_token_count",
                  "gpu_energy_alpha", "gpu_energy_beta", "gpu_energy_stdev" >>
          [] n = "generation_latency" ->
               << "model_active_parameter_count", "output_token_count",
                  "gpu_latency_alpha", "gpu_latency_beta", "gpu_latency_stdev",
                  "request_latency" >>
          [] n = "model_required_memory" ->
               << "model_total_parameter_count", "model_quantization_bits" >>
          [] n = "gpu_required_count" ->
               << "model_required_memory", "gpu_memory" >>
          [] n = "server_energy" ->
               << "generation_latency", "server_power", "server_gpu_count",
                  "gpu_required_count" >>
          [] n = "request_energy" ->
               << "provider", "provider_pue", "ai_company_to_data_center_provider",
                  "server_energy", "gpu_required_count", "gpu_energy" >>
          [] n = "request_usage_gwp" ->
               << "request_energy", "if_electricity_mix_gwp" >>
          [] n = "request_usage_adpe" ->
               << "request_energy", "if_electricity_mix_adpe" >>
          [] n = "request_usage_pe" ->
               << "request_energy", "if_electricity_mix_pe" >>
          [] n = "request_usage_water" ->
               << "request_energy", "if_electricity_mix_wcf", "provider_wue_onsite",
                  "provider", "provider_pue", "ai_company_to_data_center_provider" >>
          [] n = "server_gpu_embodied_gwp" ->
               << "server_embodied_gwp", "server_gpu_count", "gpu_embodied_gwp",
                  "gpu_required_count" >>
          [] n = "server_gpu_embodied_adpe" ->
               << "server_embodied_adpe", "server_gpu_count", "gpu_embodied_adpe",
                  "gpu_required_count" >>
          [] n = "server_gpu_embodied_pe" ->
               << "server_embodied_pe", "server_gpu_count", "gpu_embodied_pe",
                  "gpu_required_count" >>
          [] n = "request_embodied_gwp" ->
               << "server_gpu_embodied_gwp", "server_lifetime", "generation_latency" >>
          [] n = "request_embodied_adpe" ->
               << "server_gpu_embodied_adpe", "server_lifetime", "generation_latency" >>
          [] n = "request_embodied_pe" ->
               << "server_gpu_embodied_pe", "server_lifetime", "generation_latency" >>
          [] n = "request_embodied_water" ->
               << "server_lifetime", "batching_size", "water_fabricating_gpu",
                  "gpus_in_server", "generation_latency" >>

\* Mutant: gpu_energy declares request_energy, which needs gpu_energy, as an
\* input.
Deps_Cyclic ==
    [n \in Nodes |->
        IF n = "gpu_energy"
        THEN << "request_energy", "output_token_count", "gpu_energy_alpha",
                "gpu_energy_beta", "gpu_energy_stdev" >>
        ELSE SignatureOf(n)]

\* Mutant: request_embodied_gwp declares request_usage_gwp as its first input.
Deps_UsageInEmbodied ==
    [n \in Nodes |->
        IF n = "request_embodied_gwp"
        THEN << "request_usage_gwp", "server_lifetime", "generation_latency" >>
        ELSE SignatureOf(n)]

\* @dag.asset registers each function with its parameter names as the node's
\* declared inputs.
Deps == [n \in Nodes |-> SignatureOf(n)]

\* The value of input `name`: a node's cached result, else the caller's leaf.
Input(cache, overrides, name) ==
    IF name \in Nodes THEN cache[name] ELSE overrides[name]

Args(n, cache, overrides) ==
    [k \in 1..Len(Deps[n]) |-> Input(cache, overrides, Deps[n][k])]

\* Whether node n's function raises (a KeyError of a dict subscript).
NodeRaises(n, a) ==
    CASE n = "request_energy" -> LookupRaises(a[2], a[3], a[1])
      [] n = "request_usage_water" ->
            LookupRaises(a[3], a[6], a[4]) \/ LookupRaises(a[5], a[6], a[4])
      [] OTHER -> FALSE

\* Node n's function applied to its declared inputs, in declaration order.
NodeValue(n, a) ==
    CASE n = "gpu_energy" -> gpu_energy(a[1], a[2], a[3], a[4], a[5])
      [] n = "generation_latency" -> generation_latency(a[1], a[2], a[3], a[4], a[5], a[6])
      [] n = "model_required_memory" -> model_required_memory(a[1], a[2])
      [] n = "gpu_required_count" -> gpu_required_count(a[1], a[2])
      [] n = "server_energy" -> server_energy(a[1], a[2], a[3], a[4])
      [] n = "request_energy" -> request_energy(a[1], a[2], a[3], a[4], a[5], a[6])
      [] n = "request_usage_gwp" -> request_usage_gwp(a[1], a[2])
      [] n = "request_usage_adpe" -> request_usage_adpe(a[1], a[2])
      [] n = "request_usage_pe" -> request_usage_pe(a[1], a[2])
      [] n = "request_usage_water" -> request_usage_water(a[1], a[2], a[3], a[4], a[5], a[6])
      [] n = "server_gpu_embodied_gwp" -> server_gpu_embodied_gwp(a[1], a[2], a[3], a[4])
      [] n = "server_gpu_embodied_adpe" -> server_gpu_embodied_adpe(a[1], a[2], a[3], a[4])
      [] n = "server_gpu_embodied_pe" -> server_gpu_embodied_pe(a[1], a[2], a[3], a[4])
      [] n = "request_embodied_gwp" -> request_embodied_gwp(a[1], a[2], a[3])
      [] n = "request_embodied_adpe" -> request_embodied_adpe(a[1], a[2], a[3])
      [] n = "request_embodied_pe" -> request_embodied_pe(a[1], a[2], a[3])
      [] n = "request_embodied_water" -> request_embodied_water(a[1], a[2], a[3], a[4], a[5])

\* ------------------------------------------------------- the graph executor

\* The state of one execute call: the ExecutionCache, the stack of nodes being
\* resolved, how often each node's function was invoked, and the failure.
NewExecution ==
    [cache |-> [n \in {} |-> Scalar(Zero)],
     stack |-> << >>,
     invoked |-> [n \in Nodes |-> 0],
     err |-> "none"]

OnStack(e, n) == \E k \in 1..Len(e.stack) : e.stack[k] = n

Push(e, n) == [e EXCEPT !.stack = Append(e.stack, n)]

Fail(e, kind) == [e EXCEPT !.err = kind]

Available(e, overrides, name) ==
    IF name \in Nodes THEN name \in DOMAIN e.cache ELSE name \in DOMAIN overrides

DagDone(e) ==
    \/ e.err # "none"
    \/ e.stack = << >> /\ DOMAIN e.cache = Nodes

\* Mutant: the function's result is returned to the requester but not kept.
DagStep_NoCache(e, overrides) ==
    IF e.stack = << >>
    THEN Push(e, NodeOrder[1])
    ELSE LET n == e.stack[Len(e.stack)]
         IN  [e EXCEPT !.invoked[n] = @ + 1,
                       !.stack = SubSeq(e.stack, 1, Len(e.stack) - 1)]

\* One step of the recursive, memoized evaluation: start on the next node not
\* yet computed; or obtain the first missing input of the node on top of the
\* stack; or, all inputs obtained, invoke its function and cache the result.
DagStep(e, overrides) ==
    IF e.stack = << >>
    THEN LET k == CHOOSE i \in 1..Len(NodeOrder) :
                    /\ NodeOrder[i] \notin DOMAIN e.cache
                    /\ \A j \in 1..(i - 1) : NodeOrder[j] \in DOMAIN e.cache
         IN  Push(e, NodeOrder[k])
    ELSE LET n == e.stack[Len(e.stack)]
             missing == {k \in 1..Len(Deps[n]) : ~Available(e, overrides, Deps[n][k])}
         IN  IF missing # {}
             THEN LET k == CHOOSE i \in missing : \A j \in missing : i <= j
                      name == Deps[n][k]
                  IN  IF name \notin Nodes THEN Fail(e, "UnresolvedInputError")
                      ELSE IF OnStack(e, name) THEN Fail(e, "GraphCycleError")
                      ELSE Push(e, name)
             ELSE LET a == Args(n, e.cache, overrides)
                  IN  IF NodeRaises(n, a) THEN Fail(e, "KeyError")
                      ELSE [e EXCEPT !.cache = (n :> NodeValue(n, a)) @@ e.cache,
                                     !.invoked[n] = @ + 1,
                                     !.stack = SubSeq(e.stack, 1, Len(e.stack) - 1)]

RECURSIVE DagRun(_, _)
DagRun(e, overrides) ==
    IF DagDone(e) THEN e ELSE DagRun(DagStep(e, overrides), overrides)

\* dag.execute(**overrides): a fresh cache per call.
execute(overrides) == DagRun(NewExecution, overrides)

\* ------------------------------------------------------------- the defaults

PROVIDER_WUE_ONSITE ==
    [Google |-> Q(916, 1000), Meta |-> Q(18, 100), Microsoft |-> Q(49, 100),
     OVHCloud |-> Q(37, 100), Scaleway |-> Q(216, 1000), AWS |-> Q(18, 100),
     Equinix |-> Q(107, 100)]

PROVIDER_PUE ==
    [Google |-> Q(109, 100), Meta |-> Q(109, 100), Microsoft |-> Q(118, 100),
     OVHCloud |-> Q(126, 100), Scaleway |-> Q(137, 100), AWS |-> Q(115, 100),
     Equinix |-> Q(142, 100)]

AI_COMPANY_TO_DATA_CENTER_PROVIDER ==
    [anthropic |-> "Google", mistralai |-> "OVHCloud", cohere |-> "AWS",
     databricks |-> "Microsoft", meta |-> "Meta", azureopenai |-> "Microsoft",
     huggingface_hub |-> "AWS", google |-> "Google", microsoft |-> "Microsoft",
     openai |-> "Microsoft", litellm |-> "AWS"]

\* The numeric calibration leaves, in units that keep the arithmetic small.
\* Like the module's float defaults (llm.py:10-72) all are positive, and both
\* linear profiles have beta > 1.96 x stdev, so that with them the lower bound
\* of the 95% band is positive.
Calibration ==
    [model_quantization_bits |-> Q(4, 1),
     gpu_energy_alpha |-> Q(1, 1), gpu_energy_beta |-> Q(2, 1), gpu_energy_stdev |-> Q(1, 1),
     gpu_latency_alpha |-> Q(1, 1), gpu_latency_beta |-> Q(2, 1), gpu_latency_stdev |-> Q(1, 1),
     gpu_memory |-> Q(1, 1),
     gpu_embodied_gwp |-> Q(143, 1), gpu_embodied_adpe |-> Q(51, 10), gpu_embodied_pe |-> Q(1828, 1),
     server_gpu_count |-> Q(8, 1), server_power |-> Q(3600, 1),
     server_embodied_gwp |-> Q(3000, 1), server_embodied_adpe |-> Q(24, 1),
     server_embodied_pe |-> Q(38000, 1),
     server_lifetime |-> Q(5, 1),
     water_fabricating_gpu |-> Q(1, 2), gpus_in_server |-> Q(8, 1), batching_size |-> Q(16, 1)]

Keyword(kwargs, name, default) ==
    IF name \in DOMAIN kwargs THEN kwargs[name] ELSE default

\* The leaves compute_llm_impacts_dag hands to dag.execute: its arguments, the
\* keyword arguments a call omits taking their defaults.
Overrides(provider, active, total, tokens, request_latency, grid, kwargs) ==
    [k \in DOMAIN Calibration |-> Keyword(kwargs, k, Calibration[k])]
    @@
    [provider |-> provider,
     model_active_parameter_count |-> active,
     model_total_parameter_count |-> total,
     output_token_count |-> tokens,
     request_latency |-> request_latency,
     if_electricity_mix_gwp |-> grid.gwp,
     if_electricity_mix_adpe |-> grid.adpe,
     if_electricity_mix_pe |-> grid.pe,
     if_electricity_mix_wcf |-> grid.wcf,
     provider_wue_onsite |-> Keyword(kwargs, "provider_wue_onsite", PROVIDER_WUE_ONSITE),
     provider_pue |-> Keyword(kwargs, "provider_pue", PROVIDER_PUE),
     ai_company_to_data_center_provider |->
         Keyword(kwargs, "ai_company_to_data_center_provider",
                 AI_COMPANY_TO_DATA_CENTER_PROVIDER)]

\* Mutant: the call's keyword arguments are dropped, the defaults used.
compute_llm_impacts_dag_Defaults(provider, active, total, tokens, request_latency, grid, kwargs) ==
    execute(Overrides(provider, active, total, tokens, request_latency, grid,
                      [k \in {} |-> 0]))

compute_llm_impacts_dag(provider, active, total, tokens, request_latency, grid, kwargs) ==
    execute(Overrides(provider, active, total, tokens, request_latency, grid, kwargs))

\* ------------------------------------------------------------ the program

VARIABLES
    provider_selected,  \* EcoLogits.config.provider_selected, a process global
    pc,                 \* where compute_llm_impacts is: idle, loop, returned, raised
    call,               \* << the arguments of the call in progress >>, or << >>
    active_params,      \* llm.py:616 the per-pass active parameter counts
    total_params,       \* llm.py:617 the per-pass total parameter counts
    results,            \* llm.py:629 the merged fields, a dict
    runs,               \* the graph evaluations completed in this call
    executions,         \* how many times this call has called the graph
    ret,                \* << the Impacts returned >>, or << >>
    err,                \* the exception the call raised, or "none"
    prev,               \* << an earlier, completed call >> kept for comparison
    exec,               \* << the state of the execute call in progress >>, or << >>
    leaves,             \* << the overrides that execute call was given >>, or << >>
    executes,           \* how many execute calls have been started
    totals,             \* per node, the invocations of its function so far
    before,             \* totals when the execute call in progress started
    csv,                \* the rows of electricity_mixes.csv
    repo,               \* << what from_csv gave at import >>, or << >> before it
    lookup,             \* << the outcome of the last find_electricity_mix >>, or << >>
    sizing              \* the last two evaluations of the two sizing nodes, latest first

llmVars ==
    << provider_selected, pc, call, active_params, total_params, results, runs,
       executions, ret, err, prev >>

dagVars == << exec, leaves, executes, totals, before >>

mixVars == << csv, repo, lookup >>

sizingVars == << sizing >>

MaxParams == 2

MaxTokens == 1

Providers == {"anthropic", "openai", "acme"}

ParamCounts == 1..MaxParams

\* A parameter count is a number or a RangeValue: the proper intervals over
\* ParamCounts and the degenerate interval [1, 1].
ParamValues ==
    {Scalar(Q(p, 1)) : p \in ParamCounts}
    \cup {RangeValue(Q(x[1], 1), Q(x[2], 1)) :
             x \in {y \in ParamCounts \X ParamCounts : y[1] < y[2] \/ y[2] = 1}}

TokenCounts == {Q(t, 1) : t \in 0..MaxTokens}

\* request_latency: omitted (None), or a measured number of seconds.
RequestLatencies ==
    {[given |-> FALSE, v |-> Zero], [given |-> TRUE, v |-> Zero],
     [given |-> TRUE, v |-> Q(149, 25)]}

Grids ==
    {[adpe |-> Q(0, 1), pe |-> Q(0, 1), gwp |-> Q(0, 1), wcf |-> Q(0, 1)],
     [adpe |-> Q(1, 1), pe |-> Q(2, 1), gwp |-> Q(3, 1), wcf |-> Q(1, 1)]}

\* **kwargs: nothing; or linear profiles with beta = 0, whose per-token mean
\* can be below 1.96 x stdev, and tables in which Microsoft has no on-site
\* water figure and acme resolves to an operator without a PUE.
NoKwargs == [k \in {} |-> 0]

KwargsSet ==
    {NoKwargs,
     [gpu_energy_beta |-> Q(0, 1),
      gpu_latency_beta |-> Q(0, 1),
      provider_pue |-> [Google |-> Q(109, 100), Microsoft |-> Q(118, 100)],
      provider_wue_onsite |-> [Google |-> Q(916, 1000), Equinix |-> Q(107, 100)],
      ai_company_to_data_center_provider |->
         [anthropic |-> "Google", openai |-> "Microsoft", acme |-> "Equinix"]]}

CallArgs ==
    [active : ParamValues, total : ParamValues, tokens : TokenCounts,
     grid : Grids, request_latency : RequestLatencies, kwargs : KwargsSet]

Fields ==
    << "request_energy", "request_usage_gwp", "request_usage_adpe", "request_usage_pe",
       "request_usage_water", "request_embodied_gwp", "request_embodied_adpe",
       "request_embodied_pe", "request_embodied_water" >>

FieldSet == {Fields[k] : k \in 1..Len(Fields)}

NoResults == [f \in {} |-> Scalar(Zero)]

\* llm.py:613-614
Ceiling(a) == IF a.request_latency.given THEN a.request_latency.v ELSE Inf

\* Mutant: a number is not repeated for the second pass.
PassParams_NoRepeat(p, other) ==
    IF p.rv THEN << p.min, p.max >> ELSE << p.min >>

\* llm.py:616-627
PassParams(p, other) ==
    IF p.rv \/ other.rv
    THEN IF p.rv THEN << p.min, p.max >> ELSE << p.min, p.min >>
    ELSE << p.min >>

\* llm.py:632, zip stops with the shorter list
PassCount(active_list, total_list) ==
    IF Len(active_list) <= Len(total_list) THEN Len(active_list) ELSE Len(total_list)

\* Mutant: the first pass contributes its upper bound.
MinResult_Upper(v) == v.max

\* llm.py:647-652
MinResult(v) == IF v.rv THEN v.min ELSE v.max

MaxResult(v) == IF v.rv THEN v.max ELSE v.min

\* llm.py:645-655, all fields of one pass
MergeRaises(old, res) ==
    \E f \in DOMAIN old : RangeInvalid(MinResult(old[f]), MaxResult(res[f]))

\* Mutant: the first pass's values are wrapped into RangeValues too.
Merge_AlwaysRange(old, res) ==
    [f \in FieldSet |->
        IF f \in DOMAIN old
        THEN RangeValue(old[f].min, res[f].max)
        ELSE RangeValue(res[f].min, res[f].max)]

Merge(old, res) ==
    [f \in FieldSet |->
        IF f \in DOMAIN old
        THEN RangeValue(MinResult(old[f]), MaxResult(res[f]))
        ELSE res[f]]

\* llm.py:657-686; the sum of two metrics adds their values
\* Mutant: the top-level figures are the usage figures alone.
Impacts_UsageOnly(r) ==
    [energy |-> r["request_energy"],
     gwp |-> r["request_usage_gwp"],
     adpe |-> r["request_usage_adpe"],
     pe |-> r["request_usage_pe"],
     water |-> r["request_usage_water"],
     usage |-> [energy |-> r["request_energy"],
                gwp |-> r["request_usage_gwp"],
                adpe |-> r["request_usage_adpe"],
                pe |-> r["request_usage_pe"],
                water |-> r["request_usage_water"]],
     embodied |-> [gwp |-> r["request_embodied_gwp"],
                   adpe |-> r["request_embodied_adpe"],
                   pe |-> r["request_embodied_pe"],
                   water |-> r["request_embodied_water"]]]

Impacts(r) ==
    [energy |-> r["request_energy"],
     gwp |-> VAdd(r["request_usage_gwp"], r["request_embodied_gwp"]),
     adpe |-> VAdd(r["request_usage_adpe"], r["request_embodied_adpe"]),
     pe |-> VAdd(r["request_usage_pe"], r["request_embodied_pe"]),
     water |-> VAdd(r["request_usage_water"], r["request_embodied_water"]),
     usage |-> [energy |-> r["request_energy"],
                gwp |-> r["request_usage_gwp"],
                adpe |-> r["request_usage_adpe"],
                pe |-> r["request_usage_pe"],
                water |-> r["request_usage_water"]],
     embodied |-> [gwp |-> r["request_embodied_gwp"],
                   adpe |-> r["request_embodied_adpe"],
                   pe |-> r["request_embodied_pe"],
                   water |-> r["request_embodied_water"]]]

\* The second call of a compared pair repeats the first, under any selected
\* provider, or changes only its grid factors, under the same provider.
Related(p) ==
    {p.args} \cup {[p.args EXCEPT !.grid = g] : g \in
                      IF provider_selected = p.provider THEN Grids ELSE {}}

Init ==
    /\ provider_selected \in Providers
    /\ pc = "idle"
    /\ call = << >>
    /\ active_params = << >>
    /\ total_params = << >>
    /\ results = NoResults
    /\ runs = << >>
    /\ executions = 0
    /\ ret = << >>
    /\ err = "none"
    /\ prev = << >>
    /\ exec = << >>
    /\ leaves = << >>
    /\ executes = 0
    /\ totals = [n \in Nodes |-> 0]
    /\ before = [n \in Nodes |-> 0]
    /\ csv = << >>
    /\ repo = << >>
    /\ lookup = << >>
    /\ sizing = << >>

\* Some other code changes the selected provider between two calls.
SetProvider(p) ==
    /\ pc = "idle"
    /\ p # provider_selected
    /\ provider_selected' = p
    /\ UNCHANGED << pc, call, active_params, total_params, results, runs,
                    executions, ret, err, prev >>
    /\ UNCHANGED << dagVars, mixVars, sizingVars >>

\* compute_llm_impacts is called: llm.py:613-631.
Call(a) ==
    /\ pc = "idle"
    /\ pc' = "loop"
    /\ call' = << a >>
    /\ active_params' = PassParams(a.active, a.total)
    /\ total_params' = PassParams(a.total, a.active)
    /\ results' = NoResults
    /\ runs' = << >>
    /\ executions' = 0
    /\ ret' = << >>
    /\ err' = "none"
    /\ UNCHANGED << provider_selected, prev >>
    /\ UNCHANGED << dagVars, mixVars, sizingVars >>

\* One iteration of the loop of llm.py:632-655: a graph evaluation and the
\* merge of its nine fields.  An exception leaves the function at once.
Pass ==
    /\ pc = "loop"
    /\ Len(runs) < PassCount(active_params, total_params)
    /\ \E e \in {compute_llm_impacts_dag(provider_selected,
                                          active_params[Len(runs) + 1],
                                          total_params[Len(runs) + 1],
                                          call[1].tokens, Ceiling(call[1]),
                                          call[1].grid, call[1].kwargs)} :
       LET i == Len(runs) + 1
       IN  /\ executions' = executions + 1
           /\ IF e.err # "none"
              THEN /\ pc' = "raised"
                   /\ err' = e.err
                   /\ UNCHANGED << results, runs >>
              ELSE IF MergeRaises(results, e.cache)
              THEN /\ pc' = "raised"
                   /\ err' = "InvalidRangeError"
                   /\ UNCHANGED << results, runs >>
              ELSE /\ results' = Merge(results, e.cache)
                   /\ runs' = Append(runs, [active |-> active_params[i],
                                            total |-> total_params[i],
                                            res |-> e.cache])
                   /\ UNCHANGED << pc, err >>
    /\ UNCHANGED << provider_selected, call, active_params, total_params, ret, prev >>
    /\ UNCHANGED << dagVars, mixVars, sizingVars >>

\* llm.py:657-686: the loop is over, the Impacts is built and returned.
Assemble ==
    /\ pc = "loop"
    /\ Len(runs) = PassCount(active_params, total_params)
    /\ ret' = << Impacts(results) >>
    /\ pc' = "returned"
    /\ UNCHANGED << provider_selected, call, active_params, total_params, results,
                    runs, executions, err, prev >>
    /\ UNCHANGED << dagVars, mixVars, sizingVars >>

\* The caller has the result or the exception: the call is over.  `kept` is
\* what is remembered of it.
Done(kept) ==
    /\ pc \in {"returned", "raised"}
    /\ pc' = "idle"
    /\ prev' = kept
    /\ call' = << >>
    /\ active_params' = << >>
    /\ total_params' = << >>
    /\ results' = NoResults
    /\ runs' = << >>
    /\ executions' = 0
    /\ ret' = << >>
    /\ err' = "none"
    /\ UNCHANGED provider_selected
    /\ UNCHANGED << dagVars, mixVars, sizingVars >>

Finish == Done(<< >>)

Next ==
    \/ \E p \in Providers : SetProvider(p)
    \/ \E a \in CallArgs : Call(a)
    \/ Pass
    \/ Assemble
    \/ Finish

vars == << llmVars, dagVars, mixVars, sizingVars >>

Spec == Init /\ [][Next]_vars

\* ------------------------------------------------------ two calls compared

\* Pairs of calls: the first with the default tables, kept when it is over;
\* the second repeats it, or differs from it only in the grid factors and runs
\* under the same selected provider.
PairArgs == {a \in CallArgs : a.kwargs = NoKwargs}

CallFirst ==
    /\ prev = << >>
    /\ \E a \in PairArgs : Call(a)

CallSecond ==
    /\ prev # << >>
    /\ \E a \in Related(prev[1]) : Call(a)

FinishFirst ==
    /\ prev = << >>
    /\ Done(<< [args |-> call[1], provider |-> provider_selected,
                ret |-> ret, err |-> err] >>)

FinishSecond ==
    /\ prev # << >>
    /\ Done(<< >>)

NextPairs ==
    \/ \E p \in Providers : SetProvider(p)
    \/ CallFirst
    \/ CallSecond
    \/ Pass
    \/ Assemble
    \/ FinishFirst
    \/ FinishSecond

SpecPairs == Init /\ [][NextPairs]_vars

\* ------------------------------------------------- one execute, step by step

MaxExecutes == 2

\* The overrides of the execute calls followed node by node: each provider,
\* with the default tables and with the reduced ones.
DagInputs ==
    {Overrides(p, Q(1, 1), Q(1, 1), Q(1, 1), Inf, g, kw) :
        p \in Providers, g \in Grids, kw \in KwargsSet}

\* dag.execute(**overrides) is called: a new, empty ExecutionCache.
BeginExecute(o) ==
    /\ exec = << >>
    /\ executes < MaxExecutes
    /\ exec' = << NewExecution >>
    /\ leaves' = << o >>
    /\ executes' = executes + 1
    /\ before' = totals
    /\ UNCHANGED << totals, llmVars, mixVars, sizingVars >>

\* The execute call in progress takes its next step.
StepExecute ==
    /\ exec # << >>
    /\ ~DagDone(exec[1])
    /\ \E e \in {DagStep(exec[1], leaves[1])} :
          /\ exec' = << e >>
          /\ totals' = [n \in Nodes |-> totals[n] + e.invoked[n] - exec[1].invoked[n]]
    /\ UNCHANGED << leaves, executes, before, llmVars, mixVars, sizingVars >>

\* The execute call returns its results or raises; its cache is dropped.
EndExecute ==
    /\ exec # << >>
    /\ DagDone(exec[1])
    /\ exec' = << >>
    /\ leaves' = << >>
    /\ UNCHANGED << executes, totals, before, llmVars, mixVars, sizingVars >>

NextDag ==
    \/ \E o \in DagInputs : BeginExecute(o)
    \/ StepExecute
    \/ EndExecute

SpecDag == Init /\ [][NextDag]_vars

\* ------------------------------------------------- the electricity mixes

MaxRows == 2

\* The cells of the csv are strings; "" is a cell left empty.
Numerals == << "0", "1", "2", "3" >>

\* float(cell) of a numeral; float("") raises ValueError, see CellRaises.
ParseFloat(cell) == (CHOOSE k \in 1..Len(Numerals) : Numerals[k] = cell) - 1

CellRaises(cell) == \A k \in 1..Len(Numerals) : Numerals[k] # cell

\* str.upper() on the zone names of the tables.
Upper(name) == IF name = "wor" THEN "WOR" ELSE name

ZoneNames == {"WOR", "wor", "FRA"}

WcfCells == {"", "0", "1", "2"}

FactorCells ==
    {[adpe |-> "0", pe |-> "0", gwp |-> "0"], [adpe |-> "1", pe |-> "2", gwp |-> "3"]}

CsvRows ==
    {[name |-> z, adpe |-> f.adpe, pe |-> f.pe, gwp |-> f.gwp, wcf |-> w] :
        z \in ZoneNames, f \in FactorCells, w \in WcfCells}

Tables == UNION {[1..k -> CsvRows] : k \in 0..MaxRows}

\* Mutant: a zero factor of the mix is replaced by the water factor too.
ElectricityMix_ZeroFilled(zone, adpe, pe, gwp, wcf) ==
    [zone |-> zone,
     adpe |-> IF adpe = 0 THEN wcf ELSE adpe,
     pe |-> IF pe = 0 THEN wcf ELSE pe,
     gwp |-> IF gwp = 0 THEN wcf ELSE gwp,
     wcf |-> wcf]

ElectricityMix(zone, adpe, pe, gwp, wcf) ==
    [zone |-> zone, adpe |-> adpe, pe |-> pe, gwp |-> gwp, wcf |-> wcf]

\* The loop of from_csv from row i on.  wor is << wcf_wor_value_record >>, or
\* << >> while that local has not been assigned.
RECURSIVE LoadRows(_, _, _, _)
LoadRows(rows, i, wor, mixes) ==
    IF i > Len(rows) THEN [err |-> "none", mixes |-> mixes]
    ELSE LET row == rows[i]
             isWor == Upper(row.name) = "WOR"
         IN  IF isWor /\ CellRaises(row.wcf)
             THEN [err |-> "ValueError", mixes |-> << >>]
             ELSE LET wor1 == IF isWor THEN << ParseFloat(row.wcf) >> ELSE wor
                  IN  IF row.wcf = "" /\ wor1 = << >>
                      THEN [err |-> "UnboundLocalError", mixes |-> << >>]
                      ELSE LET wcf == IF row.wcf # "" THEN ParseFloat(row.wcf) ELSE wor1[1]
                           IN  LoadRows(rows, i + 1, wor1,
                                        Append(mixes,
                                               ElectricityMix(row.name, ParseFloat(row.adpe),
                                                              ParseFloat(row.pe),
                                                              ParseFloat(row.gwp), wcf)))

from_csv(rows) == LoadRows(rows, 1, << >>, << >>)

\* The first loop of find_electricity_mix: the WOR water factor read again.
RECURSIVE ReadWor(_, _, _)
ReadWor(rows, i, wor) ==
    IF i > Len(rows) THEN [err |-> "none", wor |-> wor]
    ELSE IF Upper(rows[i].name) # "WOR" THEN ReadWor(rows, i + 1, wor)
    ELSE IF CellRaises(rows[i].wcf) THEN [err |-> "ValueError", wor |-> << >>]
    ELSE ReadWor(rows, i + 1, << ParseFloat(rows[i].wcf) >>)

find_electricity_mix(mixes, rows, zone) ==
    LET read == ReadWor(rows, 1, << >>)
        hits == {k \in 1..Len(mixes) : mixes[k].zone = zone}
    IN  IF read.err # "none"
        THEN [zone |-> zone, err |-> read.err, found |-> << >>, warned |-> FALSE]
        ELSE IF hits = {}
        THEN [zone |-> zone, err |-> "none", found |-> << >>, warned |-> FALSE]
        ELSE IF read.wor = << >>
        THEN [zone |-> zone, err |-> "UnboundLocalError", found |-> << >>, warned |-> FALSE]
        ELSE LET k == CHOOSE i \in hits : \A j \in hits : i <= j
             IN  [zone |-> zone, err |-> "none", found |-> << mixes[k] >>,
                  warned |-> (mixes[k].wcf = read.wor[1] /\ zone # "WOR")]

\* electricity_mix_repository.py:84, at import.
FromCsv ==
    /\ repo = << >>
    /\ \E t \in Tables :
          /\ csv' = t
          /\ repo' = << from_csv(t) >>
    /\ lookup' = << >>
    /\ UNCHANGED << llmVars, dagVars, sizingVars >>

FindElectricityMix(zone) ==
    /\ repo # << >>
    /\ repo[1].err = "none"
    /\ lookup' = << find_electricity_mix(repo[1].mixes, csv, zone) >>
    /\ UNCHANGED << csv, repo, llmVars, dagVars, sizingVars >>

NextMix ==
    \/ FromCsv
    \/ \E z \in ZoneNames \union {"USA"} : FindElectricityMix(z)

SpecMix == Init /\ [][NextMix]_vars

\* ------------------------------------------------------ the sizing nodes

\* Total parameter counts (billions), quantization bits and GPU memories (GB)
\* around the points where the GPU count changes.
SizingTotals ==
    {Q(0, 1), Q(1, 1), Q(70, 1), Q(133, 1), Q(400, 3), Q(134, 1), Q(400, 1)}

SizingBits == {Q(4, 1), Q(16, 1)}

SizingMemories == {Q(1, 1), Q(80, 1)}

\* model_required_memory then gpu_required_count, as the graph chains them.
SizeModel(total, bits, gpu_memory) ==
    /\ \E m \in {model_required_memory(total, bits)} :
          sizing' = << [total |-> total, bits |-> bits, gpu_memory |-> gpu_memory,
                        memory |-> m, count |-> gpu_required_count(m, gpu_memory)] >>
                    \o SubSeq(sizing, 1, IF sizing = << >> THEN 0 ELSE 1)
    /\ UNCHANGED << llmVars, dagVars, mixVars >>

NextSizing ==
    \E t \in SizingTotals, b \in SizingBits, g \in SizingMemories : SizeModel(t, b, g)

SpecSizing == Init /\ [][NextSizing]_vars

\* ------------------------------------------------------------------ claims

IntervalCall == call[1].active.rv \/ call[1].total.rv

C2_TwoPassMerge ==
    (pc = "returned" /\ IntervalCall) =>
        /\ Len(runs) = 2
        /\ runs[1].active = call[1].active.min
        /\ runs[1].total = call[1].total.min
        /\ runs[2].active = call[1].active.max
        /\ runs[2].total = call[1].total.max
        /\ \A f \in FieldSet :
              /\ results[f].rv
              /\ results[f].min = runs[1].res[f].min
              /\ results[f].max = runs[2].res[f].max

C2_Witness ==
    /\ pc = "returned"
    /\ call[1].active = RangeValue(Q(1, 1), Q(2, 1))
    /\ ~call[1].total.rv
    /\ runs[1].res["request_energy"].min # runs[1].res["request_energy"].max
    /\ RLt(runs[1].res["request_energy"].max, runs[2].res["request_energy"].max)
    /\ results["request_energy"].min = runs[1].res["request_energy"].min

UsageFields ==
    {"request_energy", "request_usage_gwp", "request_usage_adpe", "request_usage_pe",
     "request_usage_water"}

EmbodiedFields ==
    {"request_embodied_gwp", "request_embodied_adpe", "request_embodied_pe",
     "request_embodied_water"}

\* C3 as stated: with two plain numbers the graph runs once with them and
\* every one of the nine output fields is the scalar the graph produced.
C3_AllScalars ==
    (pc = "returned" /\ ~IntervalCall) =>
        /\ Len(runs) = 1
        /\ runs[1].active = call[1].active.min
        /\ runs[1].total = call[1].total.min
        /\ \A f \in FieldSet : results[f] = runs[1].res[f] /\ ~results[f].rv

\* C3 amended: with two plain numbers the graph runs once with them and every
\* one of the nine output fields is exactly the value the graph produced; that
\* value is a RangeValue for request_energy and the four request_usage_*
\* fields (gpu_energy always returns a RangeValue), and for the four
\* request_embodied_* fields it is a RangeValue exactly when generation_latency
\* was not clamped to the number request_latency.
C3_GraphValues ==
    (pc = "returned" /\ ~IntervalCall) =>
        /\ Len(runs) = 1
        /\ executions = 1
        /\ runs[1].active = call[1].active.min
        /\ runs[1].total = call[1].total.min
        /\ \A f \in FieldSet : results[f] = runs[1].res[f]
        /\ \A f \in UsageFields : results[f].rv
        /\ \A f \in EmbodiedFields :
              results[f].rv = runs[1].res["generation_latency"].rv

C3_Witness ==
    /\ pc = "returned"
    /\ ~IntervalCall
    /\ results["request_energy"].rv
    /\ RLt(results["request_energy"].min, results["request_energy"].max)
    /\ ~results["request_embodied_gwp"].rv

ZeroGrid == [adpe |-> Zero, pe |-> Zero, gwp |-> Zero, wcf |-> Zero]

IsZero(v) == v.min = Zero /\ v.max = Zero

\* The operator the selected provider resolves to, under the call's tables.
Operator(a) ==
    Keyword(a.kwargs, "ai_company_to_data_center_provider",
            AI_COMPANY_TO_DATA_CENTER_PROVIDER)[provider_selected]

\* C4 as stated: with all four grid factors zero and a provider that resolves
\* to a known operator, the four request_usage_* results are exactly 0.
C4_AllUsageZero ==
    (pc = "returned" /\ call[1].grid = ZeroGrid) =>
        /\ IsZero(results["request_usage_gwp"])
        /\ IsZero(results["request_usage_adpe"])
        /\ IsZero(results["request_usage_pe"])
        /\ IsZero(results["request_usage_water"])

\* C4 amended: with all four grid factors zero and a provider that resolves to
\* a known operator, request_usage_gwp, request_usage_adpe and request_usage_pe
\* are exactly 0 (both bounds), and request_usage_water is the request energy
\* times the operator's on-site water use efficiency, bound by bound: it is 0
\* only when the request energy is 0.
C4_ZeroGridUsage ==
    (pc = "returned" /\ call[1].grid = ZeroGrid) =>
        /\ IsZero(results["request_usage_gwp"])
        /\ IsZero(results["request_usage_adpe"])
        /\ IsZero(results["request_usage_pe"])
        /\ LET wue == Keyword(call[1].kwargs, "provider_wue_onsite",
                              PROVIDER_WUE_ONSITE)[Operator(call[1])]
               energy == results["request_energy"]
               water == results["request_usage_water"]
           IN  /\ water.min = RMul(energy.min, wue)
               /\ water.max = RMul(energy.max, wue)
               /\ IsZero(water) = IsZero(energy)

C4_Witness ==
    /\ pc = "returned"
    /\ call[1].grid = ZeroGrid
    /\ provider_selected = "anthropic"
    /\ PROVIDER_PUE[Operator(call[1])] = Q(109, 100)
    /\ IsZero(results["request_usage_gwp"])
    /\ RLt(Zero, results["request_usage_water"].min)

Positive(v) == RLt(Zero, v.min)

\* The call that has just returned and the kept one differ only in their grid
\* factors and ran under the same selected provider.
GridPair ==
    /\ pc = "returned"
    /\ prev # << >>
    /\ prev[1].provider = provider_selected
    /\ call[1].grid # prev[1].args.grid
    /\ [call[1] EXCEPT !.grid = prev[1].args.grid] = prev[1].args

GridIndependent ==
    GridPair =>
        /\ prev[1].ret # << >>
        /\ ret[1].embodied = prev[1].ret[1].embodied
        /\ ret[1].energy = prev[1].ret[1].energy

C6_LatencyClamp ==
    \A k \in 1..Len(runs) :
        LET o == Overrides(provider_selected, runs[k].active, runs[k].total,
                           call[1].tokens, Ceiling(call[1]), call[1].grid,
                           call[1].kwargs)
            modelled == gpu_latency_interval(o.model_active_parameter_count,
                                             o.output_token_count, o.gpu_latency_alpha,
                                             o.gpu_latency_beta, o.gpu_latency_stdev)
            out == runs[k].res["generation_latency"]
        IN  /\ RLt(modelled.max, Ceiling(call[1])) => out = modelled
            /\ ~RLt(modelled.max, Ceiling(call[1])) =>
                  out = Scalar(call[1].request_latency.v)
            /\ RLe(out.max, Ceiling(call[1]))
            /\ ~call[1].request_latency.given => out = modelled /\ out.rv

\* One call in which the first pass is below the ceiling and the second meets
\* it exactly.
C6_Witness ==
    /\ Len(runs) = 2
    /\ call[1].request_latency.given
    /\ runs[1].res["generation_latency"].rv
    /\ RLt(runs[1].res["generation_latency"].min, runs[1].res["generation_latency"].max)
    /\ runs[2].res["generation_latency"] = Scalar(call[1].request_latency.v)
    /\ gpu_latency_interval(runs[2].active, call[1].tokens, Calibration.gpu_latency_alpha,
                            Calibration.gpu_latency_beta,
                            Calibration.gpu_latency_stdev).max
          = call[1].request_latency.v
    /\ call[1].kwargs = NoKwargs

\* The selected provider is not in the company table, or its operator is not
\* in the PUE table or not in the on-site WUE table of the call.
Unresolvable ==
    LET company_map == Keyword(call[1].kwargs, "ai_company_to_data_center_provider",
                               AI_COMPANY_TO_DATA_CENTER_PROVIDER)
        pue == Keyword(call[1].kwargs, "provider_pue", PROVIDER_PUE)
        wue == Keyword(call[1].kwargs, "provider_wue_onsite", PROVIDER_WUE_ONSITE)
    IN  \/ provider_selected \notin DOMAIN company_map
        \/ company_map[provider_selected] \notin DOMAIN pue
        \/ company_map[provider_selected] \notin DOMAIN wue

C8_Deterministic ==
    (pc \in {"returned", "raised"} /\ prev # << >> /\ call[1] = prev[1].args) =>
        /\ ret = prev[1].ret
        /\ err = prev[1].err

\* The nodes that declare `name` as an input.
Consumers(name) ==
    {n \in Nodes : \E k \in 1..Len(Deps[n]) : Deps[n][k] = name}

\* C9: within one execute call every node's function is invoked at most once,
\* and exactly once when the call completes, whatever its fan-out; a node has
\* been invoked only with all its declared inputs obtained; every execute call
\* starts from an empty cache and evaluates every node again.
C9_OncePerExecute ==
    exec # << >> =>
        LET e == exec[1]
        IN  /\ \A n \in Nodes : e.invoked[n] <= 1
            /\ \A n \in Nodes : e.invoked[n] = 1 <=> n \in DOMAIN e.cache
            /\ \A n \in Nodes : totals[n] = before[n] + e.invoked[n]
            /\ \A n \in DOMAIN e.cache :
                  \A k \in 1..Len(Deps[n]) : Available(e, leaves[1], Deps[n][k])
            /\ (DagDone(e) /\ e.err = "none") =>
                  \A n \in Nodes : e.invoked[n] = 1 /\ totals[n] = before[n] + 1

\* A second execute call has completed, after a first that completed too.
C9_Witness ==
    /\ executes = 2
    /\ exec # << >>
    /\ DagDone(exec[1])
    /\ exec[1].err = "none"
    /\ \A n \in Nodes : totals[n] = 2 /\ before[n] = 1
    /\ Cardinality(Consumers("generation_latency")) = 5
    /\ Cardinality(Consumers("gpu_required_count")) = 5

\* The table has exactly one world row, and that row has a water factor.
OneWor(rows) ==
    /\ Cardinality({k \in 1..Len(rows) : Upper(rows[k].name) = "WOR"}) = 1
    /\ \A k \in 1..Len(rows) : Upper(rows[k].name) = "WOR" => rows[k].wcf # ""

WorWcf(rows) ==
    ParseFloat(rows[CHOOSE k \in 1..Len(rows) : Upper(rows[k].name) = "WOR"].wcf)

\* The row is a zone's, and its water factor is absent or zero.
NoLocalWcf(row) ==
    /\ Upper(row.name) # "WOR"
    /\ row.wcf = "" \/ ParseFloat(row.wcf) = 0

\* C10: for every zone of the table whose water factor is zero or absent the
\* loaded record's wcf is the WOR row's water factor, and find_electricity_mix
\* of that zone warns and returns the record.
C10_ZeroOrAbsentSubstituted ==
    (repo # << >> /\ OneWor(csv)) =>
        /\ repo[1].err = "none"
        /\ \A k \in 1..Len(csv) :
              NoLocalWcf(csv[k]) => repo[1].mixes[k].wcf = WorWcf(csv)
        /\ \A k \in 1..Len(csv) :
              (/\ lookup # << >>
               /\ lookup[1].zone = csv[k].name
               /\ \A j \in 1..(k - 1) : csv[j].name # csv[k].name
               /\ NoLocalWcf(csv[k])) =>
                  /\ lookup[1].err = "none"
                  /\ lookup[1].warned
                  /\ lookup[1].found = << repo[1].mixes[k] >>

\* The row find_electricity_mix answers a lookup of `zone` from: the first of
\* that name.
FirstRow(rows, zone) ==
    CHOOSE k \in 1..Len(rows) :
        /\ rows[k].name = zone
        /\ \A j \in 1..(k - 1) : rows[j].name # zone

\* C11: the adpe, pe and gwp of the record find_electricity_mix returns are
\* the values of that zone's table row, also when they are zero and also when
\* the zone's water factor was substituted by the world average.
C11_OnlyWaterSubstituted ==
    (lookup # << >> /\ lookup[1].found # << >>) =>
        LET row == csv[FirstRow(csv, lookup[1].zone)]
            mix == lookup[1].found[1]
        IN  /\ mix.zone = lookup[1].zone
            /\ mix.adpe = ParseFloat(row.adpe)
            /\ mix.pe = ParseFloat(row.pe)
            /\ mix.gwp = ParseFloat(row.gwp)

\* A zone with zero adpe, pe and gwp and no water factor of its own is looked
\* up: its record carries the world's non-zero water factor and the zeros.
C11_Witness ==
    /\ lookup # << >>
    /\ lookup[1].found # << >>
    /\ lookup[1].zone = "FRA"
    /\ lookup[1].warned
    /\ csv[FirstRow(csv, "FRA")].wcf = ""
    /\ csv[FirstRow(csv, "FRA")].gwp = "0"
    /\ lookup[1].found[1].wcf > 0
    /\ lookup[1].found[1].gwp = 0
    /\ lookup[1].found[1].adpe = 0
    /\ lookup[1].found[1].pe = 0

Criteria == {"gwp", "adpe", "pe", "water"}

UsageField ==
    [gwp |-> "request_usage_gwp", adpe |-> "request_usage_adpe",
     pe |-> "request_usage_pe", water |-> "request_usage_water"]

EmbodiedField ==
    [gwp |-> "request_embodied_gwp", adpe |-> "request_embodied_adpe",
     pe |-> "request_embodied_pe", water |-> "request_embodied_water"]

\* C12: in the Impacts returned, each of gwp, adpe, pe and water is the usage
\* figure plus the embodied figure, lower bound with lower bound and upper with
\* upper; the usage and embodied sections carry exactly the merged fields; and
\* the top-level energy is the usage energy, request_energy.
C12_TotalsAreSums ==
    pc = "returned" =>
        LET i == ret[1]
        IN  /\ \A m \in Criteria :
                  /\ i.usage[m] = results[UsageField[m]]
                  /\ i.embodied[m] = results[EmbodiedField[m]]
                  /\ i[m].min = RAdd(i.usage[m].min, i.embodied[m].min)
                  /\ i[m].max = RAdd(i.usage[m].max, i.embodied[m].max)
                  /\ i[m].rv = (i.usage[m].rv \/ i.embodied[m].rv)
            /\ i.energy = results["request_energy"]
            /\ i.usage.energy = i.energy
            /\ results = Merge(IF Len(runs) = 2 THEN runs[1].res ELSE NoResults,
                               runs[Len(runs)].res)

\* A two-pass call has returned figures whose usage and embodied parts are
\* both proper, non-zero intervals.
C12_Witness ==
    /\ pc = "returned"
    /\ Len(runs) = 2
    /\ \A m \in Criteria :
          /\ RLt(Zero, ret[1].usage[m].min)
          /\ RLt(ret[1].usage[m].min, ret[1].usage[m].max)
          /\ RLt(Zero, ret[1].embodied[m].min)
          /\ RLt(ret[1].embodied[m].min, ret[1].embodied[m].max)
          /\ RLt(ret[1].usage[m].max, ret[1][m].max)

\* C13: model_required_memory is 1.2 x total_params x bits / 8 (3/20 of their
\* product); gpu_required_count is the smallest integer n with
\* n x gpu_memory >= that memory; 70 and 4 bits give 42, and 1 GPU of 80 GB;
\* the count does not decrease when total_params grows.
C13_Sizing ==
    /\ \A k \in 1..Len(sizing) :
          LET r == sizing[k]
              n == r.count.min
          IN  /\ ~r.memory.rv /\ ~r.count.rv
              /\ RMul(Q(20, 1), r.memory.min) = RMul(Q(3, 1), RMul(r.total, r.bits))
              /\ n.d = 1
              /\ RLe(r.memory.min, RMul(n, r.gpu_memory))
              /\ RLt(RMul(RSub(n, Q(1, 1)), r.gpu_memory), r.memory.min)
              /\ (r.total = Q(70, 1) /\ r.bits = Q(4, 1)) => r.memory = Scalar(Q(42, 1))
              /\ (r.total = Q(70, 1) /\ r.bits = Q(4, 1) /\ r.gpu_memory = Q(80, 1)) =>
                    r.count = Scalar(Q(1, 1))
    /\ (/\ Len(sizing) = 2
        /\ sizing[1].bits = sizing[2].bits
        /\ sizing[1].gpu_memory = sizing[2].gpu_memory
        /\ RLe(sizing[2].total, sizing[1].total)) =>
          RLe(sizing[2].count.min, sizing[1].count.min)

\* 70 billion parameters at 4 bits on 80 GB GPUs, then 400/3 billion: exactly
\* 80 GB, still one GPU.
C13_Witness ==
    /\ Len(sizing) = 2
    /\ sizing[2].total = Q(70, 1) /\ sizing[2].bits = Q(4, 1)
    /\ sizing[2].gpu_memory = Q(80, 1)
    /\ sizing[2].memory = Scalar(Q(42, 1))
    /\ sizing[2].count = Scalar(Q(1, 1))
    /\ sizing[1].total = Q(400, 3) /\ sizing[1].bits = Q(4, 1)
    /\ sizing[1].gpu_memory = Q(80, 1)
    /\ sizing[1].memory = Scalar(Q(80, 1))
    /\ sizing[1].count = Scalar(Q(1, 1))

ValidBounds(v) == RLe(Zero, v.min) /\ RLe(v.min, v.max)

\* The parameter counts of the call are numbers or intervals with min <= max.
OrderedParams ==
    /\ ~RangeInvalid(call[1].active.min, call[1].active.max)
    /\ ~RangeInvalid(call[1].total.min, call[1].total.max)

\* C14: every value built during compute_llm_impacts has 0 <= min <= max and
\* no InvalidRangeError is raised: the intervals of gpu_energy and
\* generation_latency, every derived node value of each pass, and the nine
\* merged fields RangeValue(min = first pass, max = second pass), for
\* non-negative inputs and parameter-count intervals with min <= max; also
\* with output_token_count = 0 and a per-token mean below 1.96 x stdev.
C14_ValidIntervals ==
    (pc # "idle" /\ OrderedParams) =>
        /\ err # "InvalidRangeError"
        /\ \A k \in 1..Len(runs) : \A n \in Nodes : ValidBounds(runs[k].res[n])
        /\ \A f \in DOMAIN results : ValidBounds(results[f])
        /\ Len(runs) = 2 =>
              \A f \in FieldSet :
                  /\ RLe(MinResult(runs[1].res[f]), MaxResult(runs[2].res[f]))
                  /\ results[f] = RangeValue(MinResult(runs[1].res[f]),
                                             MaxResult(runs[2].res[f]))

\* A two-pass call whose first pass has a per-token mean below 1.96 x stdev, so
\* that both lower bounds are floored at 0 while the upper ones are positive.
C14_Witness ==
    /\ pc = "returned"
    /\ OrderedParams
    /\ Len(runs) = 2
    /\ RLt(Zero, call[1].tokens)
    /\ "gpu_energy_beta" \in DOMAIN call[1].kwargs
    /\ RLt(RAdd(RMul(Calibration.gpu_energy_alpha, runs[1].active),
                call[1].kwargs.gpu_energy_beta),
           RMul(C196, Calibration.gpu_energy_stdev))
    /\ runs[1].res["gpu_energy"].min = Zero
    /\ RLt(Zero, runs[1].res["gpu_energy"].max)
    /\ runs[1].res["generation_latency"].min = Zero
    /\ RLt(Zero, runs[2].res["gpu_energy"].min)
    /\ results["request_energy"].min = Zero
    /\ RLt(Zero, results["request_energy"].max)

\* The nodes among the declared inputs of n.
DepNodes(n) == {Deps[n][k] : k \in 1..Len(Deps[n])} \intersect Nodes

RECURSIVE Upstream(_, _)
Upstream(S, fuel) ==
    IF fuel = 0 THEN S
    ELSE Upstream(S \union UNION {DepNodes(m) : m \in S}, fuel - 1)

\* Node names are unique, no node is upstream of itself, and every declared
\* input is a node or one of the leaves of every evaluation.
WellFormed ==
    /\ \A i, j \in 1..Len(NodeOrder) : NodeOrder[i] = NodeOrder[j] => i = j
    /\ \A n \in Nodes : n \notin Upstream(DepNodes(n), Cardinality(Nodes))
    /\ \A n \in Nodes : \A k \in 1..Len(Deps[n]) :
          \A o \in DagInputs : Deps[n][k] \in Nodes \union DOMAIN o

GraphErrors == {"DuplicateNodeError", "GraphCycleError", "UnresolvedInputError"}

\* The provider of the evaluation's leaves resolves to an operator that has a
\* PUE and an on-site WUE.
Resolvable(o) ==
    /\ o.provider \in DOMAIN o.ai_company_to_data_center_provider
    /\ o.ai_company_to_data_center_provider[o.provider] \in DOMAIN o.provider_pue
    /\ o.ai_company_to_data_center_provider[o.provider] \in DOMAIN o.provider_wue_onsite

\* C15 as stated: the graph is well formed and every evaluation ends having
\* evaluated all registered nodes.
C15_AlwaysEvaluatesAll ==
    /\ WellFormed
    /\ (exec # << >> /\ DagDone(exec[1])) =>
          /\ exec[1].err = "none"
          /\ DOMAIN exec[1].cache = Nodes

C15_Safe ==
    /\ WellFormed
    /\ exec # << >> =>
          /\ exec[1].err \notin GraphErrors
          /\ exec[1].err \in {"none", "KeyError"}
          /\ exec[1].err = "KeyError" <=> (DagDone(exec[1]) /\ ~Resolvable(leaves[1]))
          /\ (DagDone(exec[1]) /\ Resolvable(leaves[1])) =>
                /\ DOMAIN exec[1].cache = Nodes
                /\ \A n \in Nodes : exec[1].invoked[n] = 1

\* What is left to do of an evaluation: two steps for each node not yet
\* evaluated, less one for each node whose inputs are being obtained.
Remaining(e) == 2 * Cardinality(Nodes \ DOMAIN e.cache) - Len(e.stack)

\* Every step of an evaluation ends it or leaves strictly less to do, and
\* what is left is never negative: the evaluation cannot run forever.
StepsDecrease ==
    (exec # << >> /\ exec' # << >>) =>
        /\ Remaining(exec[1]) >= 0
        /\ \/ DagDone(exec'[1]) /\ exec'[1].stack = << >>
           \/ exec'[1].err # "none"
           \/ Remaining(exec'[1]) < Remaining(exec[1]) /\ Remaining(exec'[1]) > 0

\* C15 amended: the graph is well formed (unique names, no cycle, every
\* declared input a node or a leaf), so no evaluation fails with
\* DuplicateNodeError, GraphCycleError or UnresolvedInputError; every
\* evaluation terminates, having evaluated all registered nodes when the
\* provider and its operator resolve, and with the KeyError of request_energy
\* or request_usage_water otherwise.
C15_WellFormedTerminates ==
    /\ []C15_Safe
    /\ [][StepsDecrease]_vars

\* An evaluation has ended with every one of the 17 nodes evaluated.
C15_Witness ==
    /\ exec # << >>
    /\ DagDone(exec[1])
    /\ exec[1].err = "none"
    /\ exec[1].stack = << >>
    /\ DOMAIN exec[1].cache = Nodes
    /\ Cardinality(Nodes) = 17
    /\ Resolvable(leaves[1])

\* C16: for a table with a WOR row, wherever that row stands, from_csv
\* completes and gives every row with an absent water factor the WOR factor,
\* and find_electricity_mix warns for a zone exactly when that zone's water
\* factor was substituted: not for a zone with a factor of its own, not for WOR.
C16_OrderIndependent ==
    (repo # << >> /\ OneWor(csv)) =>
        /\ repo[1].err = "none"
        /\ \A k \in 1..Len(csv) :
              (Upper(csv[k].name) # "WOR" /\ csv[k].wcf = "") =>
                  repo[1].mixes[k].wcf = WorWcf(csv)
        /\ (lookup # << >> /\ lookup[1].found # << >>) =>
              LET row == csv[FirstRow(csv, lookup[1].zone)]
              IN  lookup[1].warned <=> (Upper(row.name) # "WOR" /\ row.wcf = "")

====
